---------------------------- MODULE Spec2Model ----------------------------
(***************************************************************************)
(* A model of voz-crawler: the disk cache (cache.py), the throttled,       *)
(* pagination-aware crawler (crawler.py), the page parser's pagination     *)
(* logic (parser.py) and the reply-edge extraction (graph.py).             *)
(*                                                                         *)
(* Strings are modelled by their structure: a URL is a sequence of         *)
(* segments, an HTML document is the record of what the parser's           *)
(* selectors find in it, a reconstructed post body is the sequence of its  *)
(* text runs and quote tags.  Time is integer seconds.                     *)
(***************************************************************************)
EXTENDS Integers, Sequences, FiniteSets, TLC

(***************************************************************************)
(* Bounds of the model.                                                    *)
(***************************************************************************)
MaxPage == 3        \* page numbers 1..MaxPage
Horizon == 2        \* the clock runs from StartTime to StartTime + Horizon
PosDelay == 1       \* the positive politeness delay that is tried (and 0)
PosTtl == 1         \* the positive TTL that is tried (and 0)
MaxDur == 1         \* a network call takes 0..MaxDur seconds

Pages == 1..MaxPage

\* time.time() is seconds since the epoch: far beyond 0 + delay and 0 + ttl,
\* which is what the initial _last_request_at = 0.0 relies on.
StartTime == PosDelay + PosTtl + 1
EndTime == StartTime + Horizon
Times == StartTime..EndTime

(***************************************************************************)
(* URLs: sequences of segments.  "https://voz.vn/t/foo.1" is <<BaseSeg>>,  *)
(* ".../" is <<BaseSeg, SlashSeg>>, ".../page-3" is <<BaseSeg, PageSeg(3)>>*)
(***************************************************************************)
BaseSeg == [seg |-> "base", n |-> 0]
SlashSeg == [seg |-> "/", n |-> 0]
PageSeg(n) == [seg |-> "/page-", n |-> n]

\* str.rstrip("/")
RECURSIVE RStripSlash(_)
RStripSlash(s) ==
    IF Len(s) > 0 /\ s[Len(s)] = SlashSeg
    THEN RStripSlash(SubSeq(s, 1, Len(s) - 1))
    ELSE s

\* a variant of _build_page_url: an existing page suffix is kept
KeepPageSuffix(s) == s

\* re.sub(r"/page-\d+/?$", "", s): one match at the end of the string
StripPageSuffix(s) ==
    LET n == Len(s) IN
    IF n >= 2 /\ s[n] = SlashSeg /\ s[n - 1].seg = "/page-"
    THEN SubSeq(s, 1, n - 2)
    ELSE IF n >= 1 /\ s[n].seg = "/page-"
    THEN SubSeq(s, 1, n - 1)
    ELSE s

_build_page_url(thread_url, page) ==
    LET url == StripPageSuffix(RStripSlash(thread_url)) IN
    IF page <= 1 THEN url \o <<SlashSeg>> ELSE url \o <<PageSeg(page)>>

\* the thread URLs a caller passes
ThreadUrls == { <<BaseSeg, SlashSeg>>, <<BaseSeg, PageSeg(2)>> }

\* every URL the crawler can request
Urls == { _build_page_url(t, p) : t \in ThreadUrls, p \in Pages }

(***************************************************************************)
(* HTML documents, by what the parser's selectors find in them:            *)
(*   articles  the number of article.message elements                      *)
(*   nav       whether ul.pageNav-main exists                              *)
(*   current   the text of li.pageNav-page--current a                      *)
(*   last      the text of li:last-child a                                 *)
(***************************************************************************)
Doc(a, nav, cur, last) ==
    [articles |-> a, nav |-> nav, current |-> cur, last |-> last]

Labels == {"", "Next", "0", "1", "2", "3", "4"}

\* int(label): the value, or a ValueError
IsNumeric(label) == label \in {"0", "1", "2", "3", "4"}
IntOf(label) ==
    CASE label = "0" -> 0
      [] label = "1" -> 1
      [] label = "2" -> 2
      [] label = "3" -> 3
      [] label = "4" -> 4
      [] OTHER -> 0

\* the documents the modelled server can answer with
Htmls == { Doc(0, FALSE, "", ""),        \* no posts at all
           Doc(1, TRUE, "2", "Next"),    \* page 2 of 2: the last link is "Next"
           Doc(1, TRUE, "1", "3") }      \* page 1 of 3

parse_pagination(html) ==
    IF ~html.nav THEN <<1, 1>>
    ELSE LET current_page == IF IsNumeric(html.current)
                             THEN IntOf(html.current) ELSE 1
             total_pages == IF IsNumeric(html.last)
                            THEN IntOf(html.last) ELSE current_page
         IN <<current_page, total_pages>>

(***************************************************************************)
(* Results of calls: a returned value, or a raised exception.              *)
(***************************************************************************)
Ok(v) == [kind |-> "ok", val |-> v]
Raise(e) == [kind |-> "raise", exc |-> e]
NoneRet == [kind |-> "none"]

\* exceptions.py
NetworkError == [type |-> "NetworkError"]
HTTPError(status_code, url) ==
    [type |-> "HTTPError", status_code |-> status_code, url |-> url]
CloudflareBlockedError(url) ==
    [type |-> "CloudflareBlockedError", status_code |-> 403, url |-> url]
ThreadNotFoundError(url) == [type |-> "ThreadNotFoundError", url |-> url]
PageParsingError(url) == [type |-> "PageParsingError", url |-> url]
PageOutOfRangeError(page, max_page, url) ==
    [type |-> "PageOutOfRangeError", page |-> page, max_page |-> max_page,
     url |-> url]
CacheReadError == [type |-> "CacheReadError"]
CacheWriteError == [type |-> "CacheWriteError"]
\* builtin exceptions that the code lets through
UnicodeDecodeError == [type |-> "UnicodeDecodeError"]

\* isinstance(e, HTTPError): CloudflareBlockedError derives from HTTPError
IsHTTPError(e) == e.type \in {"HTTPError", "CloudflareBlockedError"}

\* parse_thread_page: PageData, or PageParsingError when there is no post
PageData(current_page, total_pages, posts, thread_url) ==
    [current_page |-> current_page, total_pages |-> total_pages,
     posts |-> posts, thread_url |-> thread_url]

parse_thread_page(html, thread_url) ==
    IF html.articles = 0
    THEN Raise(PageParsingError(thread_url))
    ELSE LET pg == parse_pagination(html) IN
         Ok(PageData(pg[1], pg[2], html.articles, thread_url))

(***************************************************************************)
(* cache.py: PageCache.  The cache directory is a map from a file path to  *)
(* the file's content.  A file written by put is a JSON object; a file     *)
(* damaged outside the program is text that is not JSON ("badjson") or     *)
(* bytes that are not UTF-8 ("badutf8").                                   *)
(***************************************************************************)
NoFile == [kind |-> "nofile"]
JsonFile(url, cached_at, html) ==
    [kind |-> "json", url |-> url, cached_at |-> cached_at, html |-> html]
BadJsonFile == [kind |-> "badjson"]
BadUtf8File == [kind |-> "badutf8"]
DamagedFiles == {BadJsonFile, BadUtf8File}

\* _key_path: sha256(url) cut to 16 hex digits names the file.  The digest is
\* kept symbolic; distinct URLs of the model have distinct digests.
_key_path(url) == <<"sha256-16", url>>

Paths == { _key_path(u) : u \in Urls }

\* path.read_text(encoding="utf-8") then json.loads: the decoded object or
\* the exception raised
ReadJson(file) ==
    CASE file.kind = "json" -> Ok(file)
      [] file.kind = "badjson" -> Raise([type |-> "JSONDecodeError"])
      [] file.kind = "badutf8" -> Raise(UnicodeDecodeError)

\* a variant of PageCache.get's expiry test: ">=" for ">"
ExpiredAtTtl(ttl_, now_, cached_at) == now_ - cached_at >= ttl_

Expired(ttl_, now_, cached_at) == now_ - cached_at > ttl_

\* a variant of PageCache.get: the TTL is applied also when it is 0
CacheGetTtlZeroExpires(fs, ttl_, enabled_, now_, url) ==
    LET path == _key_path(url) IN
    IF ~enabled_ \/ fs[path].kind = "nofile"
    THEN [files |-> fs, ret |-> NoneRet]
    ELSE LET data == ReadJson(fs[path]) IN
         IF data.kind = "raise"
         THEN [files |-> fs,
               ret |-> IF data.exc.type \in {"JSONDecodeError", "OSError"}
                       THEN Raise(CacheReadError) ELSE data]
         ELSE IF Expired(ttl_, now_, data.val.cached_at)
         THEN [files |-> [fs EXCEPT ![path] = NoFile], ret |-> NoneRet]
         ELSE [files |-> fs, ret |-> Ok(data.val.html)]

\* PageCache.get(url): the new directory and the result
CacheGet(fs, ttl_, enabled_, now_, url) ==
    LET path == _key_path(url) IN
    IF ~enabled_
    THEN [files |-> fs, ret |-> NoneRet]
    ELSE IF fs[path].kind = "nofile"
    THEN [files |-> fs, ret |-> NoneRet]
    ELSE LET data == ReadJson(fs[path]) IN
         IF data.kind = "raise"
         THEN \* except (json.JSONDecodeError, OSError) -> CacheReadError;
              \* any other exception leaves get as it is
              [files |-> fs,
               ret |-> IF data.exc.type \in {"JSONDecodeError", "OSError"}
                       THEN Raise(CacheReadError) ELSE data]
         ELSE IF ttl_ > 0 /\ Expired(ttl_, now_, data.val.cached_at)
         THEN [files |-> [fs EXCEPT ![path] = NoFile], ret |-> NoneRet]
         ELSE [files |-> fs, ret |-> Ok(data.val.html)]

\* the outcomes of writing a file: written, open() refused (the file is as it
\* was), or the write failed after open() truncated the file
IoOutcomes == {"ok", "open_fails", "write_fails"}

\* PageCache.put(url, html)
CachePut(fs, enabled_, now_, url, html, io) ==
    LET path == _key_path(url) IN
    IF ~enabled_
    THEN [files |-> fs, ret |-> NoneRet]
    ELSE CASE io = "ok" ->
                [files |-> [fs EXCEPT ![path] = JsonFile(url, now_, html)],
                 ret |-> NoneRet]
           [] io = "open_fails" ->
                [files |-> fs, ret |-> Raise(CacheWriteError)]
           [] io = "write_fails" ->
                [files |-> [fs EXCEPT ![path] = BadJsonFile],
                 ret |-> Raise(CacheWriteError)]

\* PageCache.invalidate(url)
CacheInvalidate(fs, url) ==
    LET path == _key_path(url) IN
    IF fs[path].kind # "nofile"
    THEN [files |-> [fs EXCEPT ![path] = NoFile], ret |-> Ok(TRUE)]
    ELSE [files |-> fs, ret |-> Ok(FALSE)]

\* PageCache.clear()
CacheClear(fs) ==
    [files |-> [p \in DOMAIN fs |-> NoFile],
     ret |-> Ok(Cardinality({p \in DOMAIN fs : fs[p].kind # "nofile"}))]

(***************************************************************************)
(* The state.                                                              *)
(***************************************************************************)
VARIABLES
    files,            \* the cache directory: path -> file
    now,              \* time.time()
    ttl,              \* PageCache.ttl
    enabled,          \* PageCache.enabled
    delay,            \* VozCrawler.delay
    last_request_at,  \* VozCrawler._last_request_at
    lastIssuedAt,     \* history: when the last request went out (0: never)
    fetched,          \* history, kept by fetch_html calls: url -> what the
                      \* last call that fetched it from the network returned
    call,             \* the last completed operation, its arguments and result
    rng,              \* the crawl_pages call in progress
    df,               \* the posts collection given to the graph functions
    edges,            \* the edge list given to build_reply_graph
    G                 \* the graph that build_reply_graph returned

vars == <<files, now, ttl, enabled, delay, last_request_at, lastIssuedAt,
          fetched, call, rng, df, edges, G>>

posts == <<df, edges, G>>

config == <<ttl, enabled, delay>>

(***************************************************************************)
(* crawler.py: the network, as the environment answers one request.        *)
(***************************************************************************)
Statuses == {200, 399, 400, 403, 404}

TransportFailure(dur) == [kind |-> "fail", dur |-> dur]
Response(status, body, dur) ==
    [kind |-> "resp", status_code |-> status, text |-> body, dur |-> dur]

\* the body of an error response: a page without posts
ErrorDoc == Doc(0, FALSE, "", "")

\* what the network can do with one request: the transport fails, or a
\* response arrives (an error status comes with an error page)
NetOutcomes(statuses, bodies, durs) ==
    { TransportFailure(d) : d \in durs } \cup
    { Response(s, b, d) : s \in {x \in statuses : x < 400}, b \in bodies,
                          d \in durs } \cup
    { Response(s, ErrorDoc, d) : s \in {x \in statuses : x >= 400},
                                 d \in durs }

\* VozCrawler._throttle: the time at which it returns
Throttle(now_, last_, delay_) ==
    IF delay_ <= 0 THEN now_
    ELSE LET elapsed == now_ - last_ IN
         IF elapsed < delay_ THEN now_ + (delay_ - elapsed) ELSE now_

\* a variant of the status mapping: only 404 and 403 are errors
StatusResultOnly4034(status, url, body) ==
    IF status = 404 THEN Raise(ThreadNotFoundError(url))
    ELSE IF status = 403 THEN Raise(CloudflareBlockedError(url))
    ELSE Ok(body)

\* fetch_html, "Handle status codes": the error raised, or the body
StatusResult(status, url, body) ==
    IF status = 404 THEN Raise(ThreadNotFoundError(url))
    ELSE IF status = 403 THEN Raise(CloudflareBlockedError(url))
    ELSE IF status >= 400 THEN Raise(HTTPError(status, url))
    ELSE Ok(body)

\* a variant of fetch_html's write: the body is cached only after a cache miss
\* that found no file
PutAfterFetchOnlyIfNew(fs, enabled_, now_, url, html, io) ==
    LET path == _key_path(url) IN
    IF ~enabled_ \/ fs[path].kind = "json"
    THEN [files |-> fs, ret |-> NoneRet]
    ELSE [files |-> [fs EXCEPT ![path] = JsonFile(url, now_, html)],
          ret |-> NoneRet]

\* fetch_html's self._cache.put(url, html)
PutAfterFetch(fs, enabled_, now_, url, html, io) ==
    CachePut(fs, enabled_, now_, url, html, io)

\* the part of fetch_html after the cache: throttle, request, status, put.
\* st is [files, now, last_request_at]; the result adds ret and issued, the
\* requests that went out (each with its URL and time).
FetchFromNetwork(st, url, net, io) ==
    LET t1 == Throttle(st.now, st.last_request_at, delay)
        t2 == t1 + net.dur
        out == <<[url |-> url, at |-> t1]>>
    IN
    IF net.kind = "fail"
    THEN \* the exception leaves _last_request_at as it was
         [files |-> st.files, now |-> t2,
          last_request_at |-> st.last_request_at,
          ret |-> Raise(NetworkError), issued |-> out]
    ELSE LET r == StatusResult(net.status_code, url, net.text) IN
         IF r.kind = "raise"
         THEN [files |-> st.files, now |-> t2, last_request_at |-> t2,
               ret |-> r, issued |-> out]
         ELSE LET w == PutAfterFetch(st.files, enabled, t2, url, r.val, io) IN
              [files |-> w.files, now |-> t2, last_request_at |-> t2,
               ret |-> IF w.ret.kind = "raise" THEN w.ret ELSE r,
               issued |-> out]

\* VozCrawler.fetch_html(url, use_cache=...)
FetchHtml(st, url, use_cache, net, io) ==
    LET g == IF use_cache
             THEN CacheGet(st.files, ttl, enabled, st.now, url)
             ELSE [files |-> st.files, ret |-> NoneRet]
    IN
    IF g.ret.kind = "raise"
    THEN [files |-> g.files, now |-> st.now,
          last_request_at |-> st.last_request_at,
          ret |-> g.ret, issued |-> <<>>]
    ELSE IF g.ret.kind = "ok"
    THEN [files |-> g.files, now |-> st.now,
          last_request_at |-> st.last_request_at,
          ret |-> g.ret, issued |-> <<>>]
    ELSE FetchFromNetwork([st EXCEPT !.files = g.files], url, net, io)

\* a variant of crawl_page's range test: ">=" for ">"
OutOfRangeAtTotal(page, total_pages) == page >= total_pages

\* a variant of crawl_page: the page is not validated against the total
OutOfRangeNever(page, total_pages) == FALSE

\* crawl_page's range test
OutOfRange(page, total_pages) == page > total_pages

\* what crawl_page leaves: what fetch_html left, crawl_page's own result,
\* and (history) what fetch_html gave it
Crawled(f, ret) ==
    [files |-> f.files, now |-> f.now, last_request_at |-> f.last_request_at,
     issued |-> f.issued, ret |-> ret, html |-> f.ret]

\* a variant of crawl_page: content that fails parsing or validation is
\* taken out of the cache again
CrawlPageForgetsFailed(st, thread_url, page, net, io) ==
    LET url == _build_page_url(thread_url, page)
        f == FetchHtml(st, url, TRUE, net, io)
        dropped == [f EXCEPT !.files = CacheInvalidate(f.files, url).files]
    IN
    IF f.ret.kind = "raise" THEN Crawled(f, f.ret)
    ELSE LET page_data == parse_thread_page(f.ret.val, url) IN
         IF page_data.kind = "raise"
         THEN Crawled(dropped, page_data)
         ELSE IF OutOfRange(page, page_data.val.total_pages)
         THEN Crawled(dropped, Raise(PageOutOfRangeError(
                               page, page_data.val.total_pages, thread_url)))
         ELSE Crawled(f, page_data)

\* VozCrawler.crawl_page(thread_url, page)
CrawlPage(st, thread_url, page, net, io) ==
    LET url == _build_page_url(thread_url, page)
        f == FetchHtml(st, url, TRUE, net, io)
    IN
    IF f.ret.kind = "raise" THEN Crawled(f, f.ret)
    ELSE LET page_data == parse_thread_page(f.ret.val, url) IN
         IF page_data.kind = "raise"
         THEN Crawled(f, page_data)
         ELSE IF OutOfRange(page, page_data.val.total_pages)
         THEN Crawled(f, Raise(PageOutOfRangeError(
                               page, page_data.val.total_pages, thread_url)))
         ELSE Crawled(f, page_data)

\* the state the crawler functions read
Cur == [files |-> files, now |-> now, last_request_at |-> last_request_at]

\* The environment's choices that a call does not read are fixed, so that one
\* call is one transition: the network when the cache answers, the disk when
\* nothing is written.
UsesNetwork(url, use_cache) ==
    ~use_cache \/ CacheGet(files, ttl, enabled, now, url).ret.kind = "none"

Writes(net) ==
    enabled /\ net.kind = "resp" /\ net.status_code < 400

ReadsChoices(url, use_cache, net, io) ==
    /\ UsesNetwork(url, use_cache) \/ net = TransportFailure(0)
    /\ (UsesNetwork(url, use_cache) /\ Writes(net)) \/ io = "ok"

\* the gap between a request going out and the one before it (-1: there is
\* no earlier request)
Gap(issued) ==
    IF issued = <<>> \/ lastIssuedAt = 0 THEN -1
    ELSE issued[1].at - lastIssuedAt

\* what a call saw of the network: "none" (the cache answered, or the cache
\* read raised), "fail" (a transport failure) or "resp", with the status code
NetSeen(issued, net) == IF issued = <<>> THEN "none" ELSE net.kind
CodeSeen(issued, net) ==
    IF issued # <<>> /\ net.kind = "resp" THEN net.status_code ELSE 0

TextSeen(issued, net) ==
    IF issued # <<>> /\ net.kind = "resp" THEN net.text ELSE ErrorDoc

Idle == [pc |-> "idle"]
NoCall == [op |-> "none"]

(***************************************************************************)
(* crawl_pages, one crawl_page call per step.  r is the call in progress:  *)
(* its arguments, the loop variable p, last, results, and the history of   *)
(* the call (the pages given to crawl_page, what each call gave back, the  *)
(* URLs requested from the network).                                       *)
(***************************************************************************)
NoneEnd == 0     \* end_page=None

UrlsOf(issued) == [i \in 1..Len(issued) |-> issued[i].url]

RangeStart(thread_url, start_page, end_page) ==
    [pc |-> "first", thread |-> thread_url, start |-> start_page,
     end |-> end_page, p |-> start_page, last |-> 0, results |-> <<>>,
     crawled |-> <<>>, page_rets |-> <<>>, netlog |-> <<>>,
     first |-> NoneRet, ret |-> NoneRet]

Logged(r, c) ==
    [r EXCEPT !.crawled = Append(@, r.p),
              !.page_rets = Append(@, c.ret),
              !.netlog = @ \o UrlsOf(c.issued),
              !.first = IF r.pc = "first" THEN c.html ELSE @]

\* a variant of crawl_pages: last is end_page, not capped by the total
LastPageUncapped(end_page, total_pages) ==
    IF end_page # NoneEnd THEN end_page ELSE total_pages

\* crawl_pages: last = end_page or the total, capped by the total
LastPage(end_page, total_pages) ==
    LET last == IF end_page # NoneEnd THEN end_page ELSE total_pages IN
    IF last > total_pages THEN total_pages ELSE last

\* range(start_page + 1, last + 1) has a next element after p
MorePages(p, last) == p + 1 <= last

\* a variant of crawl_pages: a failing page is skipped and the pages crawled
\* so far are returned
RangeAfterPagePartial(r, c) ==
    LET r1 == Logged(r, c) IN
    IF c.ret.kind = "raise"
    THEN [r1 EXCEPT !.pc = "returned", !.ret = Ok(r.results)]
    ELSE LET results == Append(r.results, c.ret.val)
             last == IF r.pc = "first"
                     THEN LastPage(r.end, c.ret.val.total_pages) ELSE r.last
         IN IF MorePages(r.p, last)
            THEN [r1 EXCEPT !.pc = "loop", !.results = results,
                            !.last = last, !.p = r.p + 1]
            ELSE [r1 EXCEPT !.pc = "returned", !.results = results,
                            !.last = last, !.ret = Ok(results)]

\* crawl_pages after crawl_page(thread_url, r.p) gave c: the exception leaves
\* crawl_pages; else the page is appended and the loop goes on or returns
RangeAfterPage(r, c) ==
    LET r1 == Logged(r, c) IN
    IF c.ret.kind = "raise"
    THEN [r1 EXCEPT !.pc = "raised", !.ret = c.ret]
    ELSE LET results == Append(r.results, c.ret.val)
             last == IF r.pc = "first"
                     THEN LastPage(r.end, c.ret.val.total_pages) ELSE r.last
         IN IF MorePages(r.p, last)
            THEN [r1 EXCEPT !.pc = "loop", !.results = results,
                            !.last = last, !.p = r.p + 1]
            ELSE [r1 EXCEPT !.pc = "returned", !.results = results,
                            !.last = last, !.ret = Ok(results)]

(***************************************************************************)
(* parser.py and graph.py: quotation tags and reply edges.  A post's       *)
(* content_text is the sequence of the quotation tags in it (the prose     *)
(* between them holds no tag); a tag is the sequence of its attributes as  *)
(* _extract_content_with_quotes writes them.  "" is an empty string.       *)
(***************************************************************************)
MaxPosts == 2
MaxQuotes == 1

Usernames == {"a", "b"}
PostIdStr == <<"1", "2", "3", "4">>          \* str(post_id) of the i-th post
MissingPostId == "9"                          \* the id of no post

Attr(name, value) == [name |-> name, value |-> value]

\* _extract_content_with_quotes: the opening tag written for a quote block
\* with data-quote author and the post id found in data-source
QuoteTag(author, quote_post_id) ==
    (IF author # "" THEN <<Attr("author", author)>> ELSE <<>>)
    \o (IF quote_post_id # "" THEN <<Attr("post_id", quote_post_id)>>
        ELSE <<>>)

\* _QUOTE_RE matches the tag: the author attribute is required
QuoteReMatches(tag) ==
    /\ Len(tag) >= 1
    /\ tag[1].name = "author"
    /\ tag[1].value # ""

\* the groups of a match of _QUOTE_RE: (author, post_id or "")
QuoteReGroups(tag) ==
    <<tag[1].value,
      IF Len(tag) >= 2 /\ tag[2].name = "post_id" THEN tag[2].value ELSE "">>

\* _QUOTE_RE.findall(content_text)
QuoteReFindall(content_text) ==
    LET matched == SelectSeq(content_text, QuoteReMatches) IN
    [i \in 1..Len(matched) |-> QuoteReGroups(matched[i])]

ReplyEdge(from_post_id, from_username, to_post_id, to_username) ==
    [from_post_id |-> from_post_id, from_username |-> from_username,
     to_post_id |-> to_post_id, to_username |-> to_username]

Row(post_id, username, content_text) ==
    [post_id |-> post_id, username |-> username,
     content_text |-> content_text]

\* extract_reply_edges, first loop: post id -> username over every row
PostUserMap(rows) ==
    [id \in {rows[i].post_id : i \in 1..Len(rows)} |->
        LET last == CHOOSE i \in 1..Len(rows) :
                        /\ rows[i].post_id = id
                        /\ \A j \in 1..Len(rows) :
                               rows[j].post_id = id => j <= i
        IN rows[last].username]

\* extract_reply_edges, inner loop: the edges of one row's matches
RECURSIVE RowEdges(_, _, _, _)
RowEdges(row, quotes, post_user_map, exclude_self_quotes) ==
    IF quotes = <<>> THEN <<>>
    ELSE LET quoted_author == Head(quotes)[1]
             quoted_post_id == Head(quotes)[2]
             rest == RowEdges(row, Tail(quotes), post_user_map,
                              exclude_self_quotes)
         IN IF exclude_self_quotes /\ quoted_author = row.username
            THEN rest
            ELSE IF quoted_post_id # ""
                    /\ quoted_post_id \in DOMAIN post_user_map
            THEN <<ReplyEdge(row.post_id, row.username, quoted_post_id,
                             quoted_author)>> \o rest
            ELSE rest

\* extract_reply_edges, second loop over the rows from the i-th on
RECURSIVE EdgesFrom(_, _, _, _)
EdgesFrom(rows, i, post_user_map, exclude_self_quotes) ==
    IF i > Len(rows) THEN <<>>
    ELSE RowEdges(rows[i], QuoteReFindall(rows[i].content_text),
                  post_user_map, exclude_self_quotes)
         \o EdgesFrom(rows, i + 1, post_user_map, exclude_self_quotes)

extract_reply_edges(rows, exclude_self_quotes) ==
    EdgesFrom(rows, 1, PostUserMap(rows), exclude_self_quotes)

(***************************************************************************)
(* graph.py: the reply graph.  A networkx DiGraph is its nodes in insertion *)
(* order, the username attribute of each node, and its edges (pairs of     *)
(* nodes, each pair once) in insertion order.  The page attribute of a     *)
(* node is read by no function here and is left out.                       *)
(***************************************************************************)
EmptyGraph == [nodes |-> <<>>, username |-> <<>>, edges |-> <<>>]

Range(seq) == {seq[i] : i \in 1..Len(seq)}

\* G.has_node(n)
has_node(g, n) == n \in Range(g.nodes)

\* G.add_node(pid, username=username): a new node goes last; for a node that
\* is there the attribute is updated
add_node(g, pid, username) ==
    [nodes |-> IF has_node(g, pid) THEN g.nodes ELSE Append(g.nodes, pid),
     username |-> [n \in Range(g.nodes) \cup {pid} |->
                      IF n = pid THEN username ELSE g.username[n]],
     edges |-> g.edges]

\* G.add_edge(u, v) between two nodes of G: a DiGraph holds a pair once
add_edge(g, u, v) ==
    IF <<u, v>> \in Range(g.edges) THEN g
    ELSE [g EXCEPT !.edges = Append(@, <<u, v>>)]

\* build_reply_graph, first loop: one node per row of df
RECURSIVE AddNodes(_, _, _)
AddNodes(g, rows, i) ==
    IF i > Len(rows) THEN g
    ELSE AddNodes(add_node(g, rows[i].post_id, rows[i].username), rows, i + 1)

\* a variant of build_reply_graph's test: the source alone must be a node, and
\* add_edge creates the target
AddEdgeIfSourceKnown(g, edge) ==
    IF has_node(g, edge.from_post_id)
    THEN add_edge(IF has_node(g, edge.to_post_id) THEN g
                  ELSE add_node(g, edge.to_post_id, "?"),
                  edge.from_post_id, edge.to_post_id)
    ELSE g

\* build_reply_graph, body of the second loop: the edge is added only between
\* two nodes of G
AddEdgeIfKnown(g, edge) ==
    IF has_node(g, edge.from_post_id) /\ has_node(g, edge.to_post_id)
    THEN add_edge(g, edge.from_post_id, edge.to_post_id)
    ELSE g

RECURSIVE AddEdges(_, _, _)
AddEdges(g, edge_list, i) ==
    IF i > Len(edge_list) THEN g
    ELSE AddEdges(AddEdgeIfKnown(g, edge_list[i]), edge_list, i + 1)

build_reply_graph(rows, edge_list) ==
    AddEdges(AddNodes(EmptyGraph, rows, 1), edge_list, 1)

\* G.in_degree() and G.out_degree(): (node, degree) in node order
InDegree(g, n) == Cardinality({e \in Range(g.edges) : e[2] = n})
OutDegree(g, n) == Cardinality({e \in Range(g.edges) : e[1] = n})
in_degree(g) ==
    [i \in 1..Len(g.nodes) |-> <<g.nodes[i], InDegree(g, g.nodes[i])>>]
out_degree(g) ==
    [i \in 1..Len(g.nodes) |-> <<g.nodes[i], OutDegree(g, g.nodes[i])>>]

\* seq[:n]
Take(seq, n) == SubSeq(seq, 1, IF n < Len(seq) THEN n ELSE Len(seq))

\* a variant of the sort: an item goes before the items of the same count
InsertBeforeTies(sorted, item) ==
    LET k == Cardinality({i \in 1..Len(sorted) : sorted[i][2] > item[2]}) IN
    SubSeq(sorted, 1, k) \o <<item>> \o SubSeq(sorted, k + 1, Len(sorted))

\* sorted(items, key=count, reverse=True) is stable: an item goes after
\* every item sorted so far of the same or a larger count
InsertByCount(sorted, item) ==
    LET k == Cardinality({i \in 1..Len(sorted) : sorted[i][2] >= item[2]}) IN
    SubSeq(sorted, 1, k) \o <<item>> \o SubSeq(sorted, k + 1, Len(sorted))

RECURSIVE SortedByCount(_, _, _)
SortedByCount(sorted, items, i) ==
    IF i > Len(items) THEN sorted
    ELSE SortedByCount(InsertByCount(sorted, items[i]), items, i + 1)

\* Counter: counter[key] += cnt; a new key goes last (also with cnt = 0)
CounterAdd(counter, key, cnt) ==
    IF \E i \in 1..Len(counter) : counter[i][1] = key
    THEN [i \in 1..Len(counter) |->
             IF counter[i][1] = key THEN <<key, counter[i][2] + cnt>>
             ELSE counter[i]]
    ELSE Append(counter, <<key, cnt>>)

\* compute_graph_stats, "Aggregate by user": the degrees summed by username
RECURSIVE ByUser(_, _, _, _)
ByUser(counter, g, deg, i) ==
    IF i > Len(deg) THEN counter
    ELSE ByUser(CounterAdd(counter, g.username[deg[i][1]], deg[i][2]),
                g, deg, i + 1)

\* Counter.most_common(n): heapq.nlargest(n, items, key=count), which is
\* sorted(items, key=count, reverse=True)[:n]
most_common(counter, n) == Take(SortedByCount(<<>>, counter, 1), n)

compute_graph_stats(g, top_n) ==
    LET in_deg == in_degree(g)
        out_deg == out_degree(g)
        sorted_posts == SortedByCount(<<>>, in_deg, 1)
        cut == SelectSeq(Take(sorted_posts, top_n), LAMBDA x : x[2] > 0)
        top_quoted_posts ==
            [i \in 1..Len(cut) |->
                <<cut[i][1], g.username[cut[i][1]], cut[i][2]>>]
        user_quoted == ByUser(<<>>, g, in_deg, 1)
        user_replies == ByUser(<<>>, g, out_deg, 1)
    IN [num_nodes |-> Len(g.nodes), num_edges |-> Len(g.edges),
        top_quoted_posts |-> top_quoted_posts,
        top_quoted_users |-> most_common(user_quoted, top_n),
        top_repliers |-> most_common(user_replies, top_n)]

(***************************************************************************)
(* parser.py: _extract_content_with_quotes.  The markup of a post body is  *)
(* a sequence of items: a text segment, or a quote block (an element of    *)
(* class bbCodeBlock--quote) with its data-quote author, the post id in    *)
(* its data-source, and its content, again a sequence of items.  Two       *)
(* elements have the same HTML exactly when they are the same item.  The   *)
(* text that comes out is a sequence of tokens: text segments, placeholders*)
(* and <quote> annotations.  normalize_text changes the whitespace inside  *)
(* and around the tokens, not the tokens.                                  *)
(***************************************************************************)
TextItem(t) ==
    [kind |-> "text", text |-> t, author |-> "", post_id |-> "",
     content |-> <<>>, n |-> 0]
QuoteBlock(author, post_id, content) ==
    [kind |-> "quote", text |-> "", author |-> author, post_id |-> post_id,
     content |-> content, n |-> 0]
\* f"__QUOTE_PLACEHOLDER_{idx}__"
Placeholder(idx) ==
    [kind |-> "placeholder", text |-> "", author |-> "", post_id |-> "",
     content |-> <<>>, n |-> idx]

\* article.css(".bbCodeBlock--quote") under items: every quote block, the
\* nested ones too, in document order
RECURSIVE QuoteBlocksIn(_)
QuoteBlocksIn(items) ==
    IF items = <<>> THEN <<>>
    ELSE (IF Head(items).kind = "quote"
          THEN <<Head(items)>> \o QuoteBlocksIn(Head(items).content)
          ELSE <<>>)
         \o QuoteBlocksIn(Tail(items))

\* css("::text").getall() under items: every text node in document order
RECURSIVE TextNodes(_)
TextNodes(items) ==
    IF items = <<>> THEN <<>>
    ELSE (IF Head(items).kind = "quote" THEN TextNodes(Head(items).content)
          ELSE <<Head(items)>>)
         \o TextNodes(Tail(items))

\* the text nodes of each block of blocks, one block after the other
RECURSIVE ContentTexts(_)
ContentTexts(blocks) ==
    IF blocks = <<>> THEN <<>>
    ELSE TextNodes(Head(blocks).content) \o ContentTexts(Tail(blocks))

\* f"<quote{attr_str}>{quote_text}</quote>" for the block qb: content is
\* qb.css(".bbCodeBlock-expandContent"), the content element of qb and of
\* every block nested in qb
Annotation(qb) ==
    [kind |-> "annotation", text |-> "", author |-> qb.author,
     post_id |-> qb.post_id,
     content |-> ContentTexts(<<qb>> \o QuoteBlocksIn(qb.content)), n |-> 0]

\* modified_html.replace(qb.get(), placeholder): every occurrence of the
\* HTML of qb in what is left of the markup
RECURSIVE ReplaceBlock(_, _, _)
ReplaceBlock(items, qb, idx) ==
    IF items = <<>> THEN <<>>
    ELSE LET item == Head(items)
             new == IF item = qb THEN Placeholder(idx)
                    ELSE IF item.kind = "quote"
                    THEN [item EXCEPT
                            !.content = ReplaceBlock(@, qb, idx)]
                    ELSE item
         IN <<new>> \o ReplaceBlock(Tail(items), qb, idx)

\* the second loop: the blocks from the idx-th on are replaced in turn
RECURSIVE ReplaceBlocks(_, _, _)
ReplaceBlocks(items, quote_blocks, idx) ==
    IF idx > Len(quote_blocks) THEN items
    ELSE ReplaceBlocks(ReplaceBlock(items, quote_blocks[idx], idx - 1),
                       quote_blocks, idx + 1)

\* raw_text.replace(placeholder, "\n" + replacement + "\n") for the
\* replacements from the idx-th on
RECURSIVE Substitute(_, _, _)
Substitute(raw_text, replacements, idx) ==
    IF idx > Len(replacements) THEN raw_text
    ELSE Substitute(
            [i \in 1..Len(raw_text) |->
                IF raw_text[i] = Placeholder(idx - 1)
                THEN replacements[idx] ELSE raw_text[i]],
            replacements, idx + 1)

\* _extract_content_with_quotes(article), body the markup of .bbWrapper
_extract_content_with_quotes(body) ==
    LET quote_blocks == QuoteBlocksIn(body)
        replacements ==
            [i \in 1..Len(quote_blocks) |-> Annotation(quote_blocks[i])]
        modified_html == ReplaceBlocks(body, quote_blocks, 1)
        raw_text == TextNodes(modified_html)
    IN Substitute(raw_text, replacements, 1)

(***************************************************************************)
(* Actions.  Each sets call to what it did.                                *)
(***************************************************************************)
\* the clock advances
Tick ==
    /\ now < EndTime
    /\ now' = now + 1
    /\ call' = [op |-> "tick"]
    /\ UNCHANGED <<files, config, last_request_at, lastIssuedAt, rng, posts,
                   fetched>>

\* a cache file is damaged on disk, outside the program
Damage(url, f) ==
    /\ files[_key_path(url)].kind = "json"
    /\ files' = [files EXCEPT ![_key_path(url)] = f]
    /\ call' = [op |-> "damage", url |-> url]
    /\ UNCHANGED <<now, config, last_request_at, lastIssuedAt, rng, posts,
                   fetched>>

\* PageCache.put(url, html), called directly
Put(url, html, io) ==
    LET w == CachePut(files, enabled, now, url, html, io) IN
    /\ rng.pc = "idle"
    /\ files' = w.files
    /\ call' = [op |-> "put", url |-> url, html |-> html, ret |-> w.ret]
    /\ UNCHANGED <<now, config, last_request_at, lastIssuedAt, rng, posts,
                   fetched>>

\* PageCache.get(url), called directly
Get(url) ==
    LET g == CacheGet(files, ttl, enabled, now, url) IN
    /\ rng.pc = "idle"
    /\ files' = g.files
    /\ call' = [op |-> "get", url |-> url, ret |-> g.ret,
                found |-> files[_key_path(url)], at |-> now]
    /\ UNCHANGED <<now, config, last_request_at, lastIssuedAt, rng, posts,
                   fetched>>

\* PageCache.invalidate(url), called directly
Invalidate(url) ==
    LET i == CacheInvalidate(files, url) IN
    /\ rng.pc = "idle"
    /\ files' = i.files
    /\ call' = [op |-> "invalidate", url |-> url, ret |-> i.ret]
    /\ UNCHANGED <<now, config, last_request_at, lastIssuedAt, rng, posts,
                   fetched>>

\* PageCache.clear() and VozCrawler.clear_cache()
Clear ==
    LET c == CacheClear(files) IN
    /\ rng.pc = "idle"
    /\ files' = c.files
    /\ call' = [op |-> "clear", ret |-> c.ret]
    /\ UNCHANGED <<now, config, last_request_at, lastIssuedAt, rng, posts,
                   fetched>>

\* VozCrawler.invalidate_page(thread_url, page)
InvalidatePage(thread_url, page) ==
    LET url == _build_page_url(thread_url, page)
        i == CacheInvalidate(files, url)
    IN
    /\ rng.pc = "idle"
    /\ files' = i.files
    /\ call' = [op |-> "invalidate_page", thread |-> thread_url,
                page |-> page, url |-> url, ret |-> i.ret]
    /\ UNCHANGED <<now, config, last_request_at, lastIssuedAt, rng, posts,
                   fetched>>

\* what a crawler call leaves in the crawler and on disk
Leaves(c) ==
    /\ c.now <= EndTime
    /\ files' = c.files
    /\ now' = c.now
    /\ last_request_at' = c.last_request_at
    /\ lastIssuedAt' = IF c.issued = <<>> THEN lastIssuedAt
                       ELSE c.issued[Len(c.issued)].at

\* VozCrawler.fetch_html(url, use_cache=use_cache)
FetchHtmlCall(url, use_cache, net, io) ==
    /\ rng.pc = "idle"
    /\ ReadsChoices(url, use_cache, net, io)
    /\ \E c \in {FetchHtml(Cur, url, use_cache, net, io)} :
         /\ Leaves(c)
         /\ call' = [op |-> "fetch_html", url |-> url,
                     use_cache |-> use_cache, ret |-> c.ret,
                     gap |-> Gap(c.issued), net |-> NetSeen(c.issued, net),
                     status_code |-> CodeSeen(c.issued, net),
                     text |-> TextSeen(c.issued, net)]
         /\ fetched' = IF c.issued # <<>> /\ c.ret.kind = "ok"
                       THEN [fetched EXCEPT ![url] = c.ret]
                       ELSE fetched
    /\ UNCHANGED <<config, rng, posts>>

\* VozCrawler.crawl_page(thread_url, page)
CrawlPageCall(thread_url, page, net, io) ==
    /\ rng.pc = "idle"
    /\ ReadsChoices(_build_page_url(thread_url, page), TRUE, net, io)
    /\ \E c \in {CrawlPage(Cur, thread_url, page, net, io)} :
         /\ Leaves(c)
         /\ call' = [op |-> "crawl_page", thread |-> thread_url,
                     page |-> page, ret |-> c.ret, html |-> c.html,
                     gap |-> Gap(c.issued), net |-> NetSeen(c.issued, net),
                     status_code |-> CodeSeen(c.issued, net)]
    /\ UNCHANGED <<config, rng, posts, fetched>>

\* what a step of crawl_pages leaves: the call goes on, or it is over
RangeLeaves(r, c) ==
    IF r.pc = "loop"
    THEN /\ rng' = r
         /\ call' = [op |-> "crawl_pages_running", gap |-> Gap(c.issued)]
    ELSE /\ rng' = Idle
         /\ call' = [op |-> "crawl_pages", thread |-> r.thread,
                     start |-> r.start, end |-> r.end, ret |-> r.ret,
                     last |-> r.last, crawled |-> r.crawled,
                     page_rets |-> r.page_rets, netlog |-> r.netlog,
                     first |-> r.first, gap |-> Gap(c.issued)]

\* VozCrawler.crawl_pages(thread_url, start_page, end_page) up to and with its
\* first crawl_page call
CrawlPagesBegin(thread_url, start_page, end_page, net, io) ==
    /\ rng.pc = "idle"
    /\ ReadsChoices(_build_page_url(thread_url, start_page), TRUE, net, io)
    /\ \E c \in {CrawlPage(Cur, thread_url, start_page, net, io)} :
       \E r \in {RangeAfterPage(
                    RangeStart(thread_url, start_page, end_page), c)} :
         /\ Leaves(c)
         /\ RangeLeaves(r, c)
    /\ UNCHANGED <<config, posts, fetched>>

\* one iteration of crawl_pages' loop
CrawlPagesNext(net, io) ==
    /\ rng.pc = "loop"
    /\ ReadsChoices(_build_page_url(rng.thread, rng.p), TRUE, net, io)
    /\ \E c \in {CrawlPage(Cur, rng.thread, rng.p, net, io)} :
       \E r \in {RangeAfterPage(rng, c)} :
         /\ Leaves(c)
         /\ RangeLeaves(r, c)
    /\ UNCHANGED <<config, posts, fetched>>

\* extract_reply_edges(df, exclude_self_quotes=exclude_self_quotes)
ExtractReplyEdgesCall(exclude_self_quotes) ==
    /\ call' = [op |-> "extract_reply_edges",
                exclude_self_quotes |-> exclude_self_quotes,
                ret |-> extract_reply_edges(df, exclude_self_quotes)]
    /\ UNCHANGED <<files, now, config, last_request_at, lastIssuedAt, rng,
                   posts, fetched>>

\* build_reply_graph(df, edges)
BuildReplyGraphCall ==
    /\ G' = build_reply_graph(df, edges)
    /\ call' = [op |-> "build_reply_graph"]
    /\ UNCHANGED <<files, now, config, last_request_at, lastIssuedAt, rng,
                   df, edges, fetched>>

\* compute_graph_stats(G, top_n=top_n)
ComputeGraphStatsCall(top_n) ==
    /\ call' = [op |-> "compute_graph_stats", top_n |-> top_n,
                ret |-> compute_graph_stats(G, top_n)]
    /\ UNCHANGED <<files, now, config, last_request_at, lastIssuedAt, rng,
                   posts, fetched>>

\* _build_page_url(thread_url, page), on a thread URL that a caller has
BuildPageUrlCall(thread_url, page) ==
    /\ call' = [op |-> "_build_page_url", base |-> thread_url,
                thread_url |-> thread_url, page |-> page,
                ret |-> _build_page_url(thread_url, page)]
    /\ UNCHANGED <<files, now, config, last_request_at, lastIssuedAt, rng,
                   posts, fetched>>

\* _build_page_url(url, page), on the URL that the last call returned for
\* base
BuildPageUrlAgainCall(page) ==
    /\ call.op = "_build_page_url"
    /\ call' = [op |-> "_build_page_url", base |-> call.base,
                thread_url |-> call.ret, page |-> page,
                ret |-> _build_page_url(call.ret, page)]
    /\ UNCHANGED <<files, now, config, last_request_at, lastIssuedAt, rng,
                   posts, fetched>>

\* _extract_content_with_quotes(article), article a post with this body
ExtractContentCall(body) ==
    /\ call' = [op |-> "_extract_content_with_quotes", body |-> body,
                ret |-> _extract_content_with_quotes(body)]
    /\ UNCHANGED <<files, now, config, last_request_at, lastIssuedAt, rng,
                   posts, fetched>>

\* parse_thread_page(html, thread_url=thread_url)
ParseThreadPageCall(html, thread_url) ==
    /\ call' = [op |-> "parse_thread_page", html |-> html,
                thread_url |-> thread_url,
                ret |-> parse_thread_page(html, thread_url)]
    /\ UNCHANGED <<files, now, config, last_request_at, lastIssuedAt, rng,
                   posts, fetched>>

(***************************************************************************)
(* Specifications.                                                         *)
(***************************************************************************)
Configs == [ttl : {0, PosTtl}, enabled : BOOLEAN, delay : {0, PosDelay}]

InitWith(keys, cfgs) ==
    /\ files = [p \in { _key_path(u) : u \in keys } |-> NoFile]
    /\ now = StartTime
    /\ \E c \in cfgs : /\ ttl = c.ttl
                       /\ enabled = c.enabled
                       /\ delay = c.delay
    /\ last_request_at = 0
    /\ lastIssuedAt = 0
    /\ fetched = [u \in keys |-> NoneRet]
    /\ call = NoCall
    /\ rng = Idle
    /\ df = <<>>
    /\ edges = <<>>
    /\ G = EmptyGraph

\* the keys and contents of the cache specifications
FewUrls == { _build_page_url(<<BaseSeg>>, p) : p \in 1..2 }
FewHtmls == { Doc(1, FALSE, "", ""), Doc(1, TRUE, "1", "3") }

\* PageCache on its own: put, get, invalidate and clear called directly
InitCache == InitWith(FewUrls, {c \in Configs : c.delay = 0})

NextCache ==
    \/ Tick
    \/ \E u \in FewUrls, f \in DamagedFiles : Damage(u, f)
    \/ \E u \in FewUrls, h \in FewHtmls, io \in IoOutcomes : Put(u, h, io)
    \/ \E u \in FewUrls : Get(u)
    \/ \E u \in FewUrls : Invalidate(u)
    \/ Clear

SpecCache == InitCache /\ [][NextCache]_vars

\* the fetcher with its cache: fetch_html, invalidate_page, clear_cache
InitFetch == InitWith(FewUrls, {c \in Configs : c.enabled /\ c.delay > 0})

FetchNets == NetOutcomes(Statuses, FewHtmls, 0..MaxDur)

NextFetch ==
    \/ Tick
    \/ \E u \in FewUrls, f \in DamagedFiles : Damage(u, f)
    \/ \E u \in FewUrls, uc \in BOOLEAN, net \in FetchNets,
          io \in IoOutcomes : FetchHtmlCall(u, uc, net, io)
    \/ \E p \in 1..2 : InvalidatePage(<<BaseSeg>>, p)
    \/ Clear

SpecFetch == InitFetch /\ [][NextFetch]_vars

\* the crawler: crawl_page, crawl_pages, invalidate_page, clear_cache on one
\* thread
Thread == <<BaseSeg>>
ThreadPages == { _build_page_url(Thread, p) : p \in Pages }

Init == InitWith(ThreadPages,
                 {c \in Configs : c.enabled /\ c.delay > 0 /\ c.ttl > 0})

CrawlNets == NetOutcomes({200, 404, 500}, Htmls, {0})
CrawlIo == {"ok", "open_fails"}

Next ==
    \/ Tick
    \/ \E u \in ThreadPages : Damage(u, BadJsonFile)
    \/ \E p \in Pages, net \in CrawlNets, io \in CrawlIo :
            CrawlPageCall(Thread, p, net, io)
    \/ \E p \in Pages, e \in {NoneEnd} \cup Pages, net \in CrawlNets,
          io \in CrawlIo : CrawlPagesBegin(Thread, p, e, net, io)
    \/ \E net \in CrawlNets, io \in CrawlIo : CrawlPagesNext(net, io)
    \/ \E p \in Pages : InvalidatePage(Thread, p)
    \/ Clear

Spec == Init /\ [][Next]_vars

\* the reply graph: extract_reply_edges on a collection of posts
QuoteTags ==
    { QuoteTag(a, q) : a \in Usernames \cup {""},
                       q \in {PostIdStr[i] : i \in 1..MaxPosts}
                             \cup {"", MissingPostId} }

Contents == UNION { [1..n -> QuoteTags] : n \in 0..MaxQuotes }

PostCollections ==
    UNION { { [i \in 1..n |-> Row(PostIdStr[i], u[i], c[i])] :
                u \in [1..n -> Usernames], c \in [1..n -> Contents] } :
            n \in 1..MaxPosts }

InitEdges ==
    /\ files = [p \in {} |-> NoFile]
    /\ now = StartTime
    /\ ttl = 0 /\ enabled = FALSE /\ delay = 0
    /\ last_request_at = 0
    /\ lastIssuedAt = 0
    /\ fetched = [u \in {} |-> NoneRet]
    /\ call = NoCall
    /\ rng = Idle
    /\ df \in PostCollections
    /\ edges = <<>>
    /\ G = EmptyGraph

NextEdges == \E x \in BOOLEAN : ExtractReplyEdgesCall(x)

SpecEdges == InitEdges /\ [][NextEdges]_vars

\* the reply graph: build_reply_graph on a collection of posts and a list of
\* edges, then compute_graph_stats on the graph
MaxEdges == 3
MaxTopN == 2

\* two pages of one post each; post 2, by another author, quotes post 1
TwoPages ==
    <<Row("1", "a", <<>>), Row("2", "b", <<QuoteTag("a", "1")>>)>>

\* collections of posts that quote nothing, and the two pages
GraphCollections ==
    UNION { { [i \in 1..n |-> Row(PostIdStr[i], u[i], <<>>)] :
                u \in [1..n -> Usernames] } : n \in 1..MaxPosts }
    \cup {TwoPages}

\* edges between the posts of a collection and one post outside it
GraphIds == {PostIdStr[i] : i \in 1..MaxPosts} \cup {MissingPostId}
GraphEdges == { ReplyEdge(f, "a", t, "b") : f \in GraphIds, t \in GraphIds }
EdgeLists == UNION { [1..n -> GraphEdges] : n \in 0..MaxEdges }

InitGraph ==
    /\ files = [p \in {} |-> NoFile]
    /\ now = StartTime
    /\ ttl = 0 /\ enabled = FALSE /\ delay = 0
    /\ last_request_at = 0
    /\ lastIssuedAt = 0
    /\ fetched = [u \in {} |-> NoneRet]
    /\ call = NoCall
    /\ rng = Idle
    /\ df \in GraphCollections
    /\ edges \in EdgeLists \cup {extract_reply_edges(df, TRUE)}
    /\ G = EmptyGraph

NextGraph ==
    \/ BuildReplyGraphCall
    \/ \E n \in 0..MaxTopN : ComputeGraphStatsCall(n)

SpecGraph == InitGraph /\ [][NextGraph]_vars

\* page URLs: _build_page_url on the thread URLs a caller can have, and on
\* its own results
OtherSeg == [seg |-> "base", n |-> 1]          \* a second thread
BareThreads == { <<BaseSeg>>, <<OtherSeg>> }

\* a bare thread URL as it is, with one or two trailing slashes, or with a
\* page suffix, itself with or without a trailing slash
ThreadUrlForms ==
    UNION { { t, t \o <<SlashSeg>>, t \o <<SlashSeg, SlashSeg>> }
            \cup { t \o <<PageSeg(m)>> : m \in Pages }
            \cup { t \o <<PageSeg(m), SlashSeg>> : m \in Pages } :
            t \in BareThreads }

InitUrl == InitWith({}, {[ttl |-> 0, enabled |-> FALSE, delay |-> 0]})

NextUrl ==
    \/ \E t \in ThreadUrlForms, p \in Pages : BuildPageUrlCall(t, p)
    \/ \E p \in Pages : BuildPageUrlAgainCall(p)

SpecUrl == InitUrl /\ [][NextUrl]_vars

\* post bodies: up to MaxItems text segments and quote blocks, a block with
\* the text B or, a block by U1, with one nested block by U2 in it
MaxItems == 3

QuoteAuthors == {"U1", "U2"}
LeafBlocks ==
    { QuoteBlock(a, q, <<TextItem("B")>>) :
        a \in QuoteAuthors, q \in {"", "1"} }
NestingBlocks ==
    { QuoteBlock("U1", q, <<b>>) :
        q \in {"", "2"}, b \in {x \in LeafBlocks : x.author = "U2"} }
BodyItems == {TextItem("A"), TextItem("C")} \cup LeafBlocks \cup NestingBlocks
Bodies == UNION { [1..n -> BodyItems] : n \in 0..MaxItems }

InitBody == InitWith({}, {[ttl |-> 0, enabled |-> FALSE, delay |-> 0]})

NextBody == \E body \in Bodies : ExtractContentCall(body)

SpecBody == InitBody /\ [][NextBody]_vars

\* the page parser: parse_thread_page on documents with and without posts,
\* with and without a pagination bar, with every label as the current page
\* and as the last link
ParsedDocs ==
    { Doc(a, nav, cur, last) :
        a \in 0..1, nav \in BOOLEAN, cur \in Labels, last \in Labels }

InitParse == InitWith({}, {[ttl |-> 0, enabled |-> FALSE, delay |-> 0]})

NextParse == \E html \in ParsedDocs : ParseThreadPageCall(html, <<BaseSeg>>)

SpecParse == InitParse /\ [][NextParse]_vars

(***************************************************************************)
(* The claims.                                                             *)
(***************************************************************************)
\* the last operation was get(url) on an enabled cache that held an entry
\* written by put
GotEntry ==
    /\ call.op = "get"
    /\ enabled
    /\ call.found.kind = "json"

\* the age of the entry that the last get found
FoundAge == call.at - call.found.cached_at

\* C3: enabled cache, TTL > 0.  get(k) on the entry that put(k, v) wrote
\* returns exactly v while the entry's age is within the TTL and leaves the
\* entry; once the age exceeds the TTL get returns absent and that get has
\* removed the file, so that invalidate(k) finds nothing.
C3_RoundTripThenExpiry ==
    (GotEntry /\ ttl > 0) =>
        LET path == _key_path(call.url) IN
        IF FoundAge <= ttl
        THEN /\ call.ret = Ok(call.found.html)
             /\ files[path] = call.found
        ELSE /\ call.ret = NoneRet
             /\ files[path] = NoFile
             /\ CacheInvalidate(files, call.url).ret = Ok(FALSE)

\* C3's case: a get found an entry older than the TTL
C3_Witness ==
    /\ GotEntry /\ ttl > 0
    /\ FoundAge > ttl
    /\ call.ret = NoneRet

\* C7: on an enabled cache, get(key) of a file that cannot be decoded fails
\* with CacheReadError (and never reports absent), whatever the TTL and age.
C7_DamagedRaisesCacheReadError ==
    (call.op = "get" /\ enabled /\ call.found \in DamagedFiles) =>
        call.ret = Raise(CacheReadError)

\* C9: TTL = 0.  get(k) returns the v that put(k, v) wrote, at every later
\* time, and leaves the entry on disk.
C9_TtlZeroNeverExpires ==
    (GotEntry /\ ttl = 0) =>
        /\ call.ret = Ok(call.found.html)
        /\ files[_key_path(call.url)] = call.found

\* C9's case: with TTL = 0 a get found an entry older than any positive TTL
\* of the model
C9_Witness ==
    /\ GotEntry /\ ttl = 0
    /\ FoundAge > PosTtl
    /\ call.ret = Ok(call.found.html)

\* a present, non-expired entry
Fresh(f) ==
    /\ f.kind = "json"
    /\ ~(ttl > 0 /\ Expired(ttl, now, f.cached_at))

\* every present, non-expired entry holds the body that the last successful
\* network fetch of its key returned
EntriesAreLastFetched ==
    \A u \in DOMAIN fetched :
        Fresh(files[_key_path(u)]) =>
            fetched[u] = Ok(files[_key_path(u)].html)

\* this step is a fetch_html call that returned a body fetched from the
\* network
FetchedStep ==
    /\ call'.op = "fetch_html"
    /\ call'.net = "resp"
    /\ call'.ret.kind = "ok"

\* this step is a fetch_html call that ended in one of the network and HTTP
\* errors
FetchFailedStep ==
    /\ call'.op = "fetch_html"
    /\ call'.ret.kind = "raise"
    /\ call'.ret.exc.type \in {"NetworkError", "ThreadNotFoundError",
                               "CloudflareBlockedError", "HTTPError"}

\* a successful network fetch has written its body under the request URL,
\* also when the cache read was bypassed or an older entry was there
FetchWrites ==
    FetchedStep =>
        files'[_key_path(call'.url)] =
            JsonFile(call'.url, now', call'.ret.val)

\* the failing fetch left path p alone, or p is the file of the request URL,
\* held an expired entry, and the cache read of the fetch deleted it
LeftOrExpired(p) ==
    \/ files'[p] = files[p]
    \/ /\ p = _key_path(call'.url)
       /\ call'.use_cache
       /\ files[p].kind = "json"
       /\ ttl > 0 /\ Expired(ttl, now, files[p].cached_at)
       /\ files'[p] = NoFile

C5_RequestsAreDelayApart ==
    (delay > 0 /\ call.op = "fetch_html" /\ call.net # "none"
       /\ call.gap # -1) =>
        call.gap >= delay

\* what fetch_html gives for an error status, or for a transport failure
ErrorOutcome ==
    CASE call.net = "fail" -> Raise(NetworkError)
      [] call.status_code = 404 -> Raise(ThreadNotFoundError(call.url))
      [] call.status_code = 403 ->
            Raise([type |-> "CloudflareBlockedError", status_code |-> 403,
                   url |-> call.url])
      [] OTHER -> Raise([type |-> "HTTPError",
                         status_code |-> call.status_code, url |-> call.url])

NetworkFetch == call.op = "fetch_html" /\ call.net # "none"

CrawlPageParsed ==
    /\ call.op = "crawl_page"
    /\ call.html.kind = "ok"
    /\ parse_thread_page(call.html.val,
                         _build_page_url(call.thread, call.page)).kind = "ok"

\* C1: crawl_page(thread, p) on content that reports total pages:
\* p > total fails with PageOutOfRangeError(p, total, thread) and returns no
\* page; p <= total returns the parsed page.  So for content from the cache
\* as for content from the network.
C1_PageOutOfRange ==
    CrawlPageParsed =>
        LET page_data == parse_thread_page(call.html.val,
                            _build_page_url(call.thread, call.page)).val
        IN IF call.page > page_data.total_pages
           THEN call.ret = Raise(PageOutOfRangeError(
                               call.page, page_data.total_pages, call.thread))
           ELSE call.ret = Ok(page_data)

\* C1's case: content from the cache reports fewer pages than the page asked
\* for
C1_Witness ==
    /\ CrawlPageParsed
    /\ call.net = "none"
    /\ call.ret.kind = "raise"
    /\ call.ret.exc.type = "PageOutOfRangeError"
    /\ call.ret.exc.page > call.ret.exc.max_page

\* crawl_pages is over and every page succeeded
RangeSucceeded == call.op = "crawl_pages" /\ call.ret.kind = "ok"

\* min(end, T), T when end is None, T the total pages of the first page
EffectiveEnd ==
    LET T == call.page_rets[1].val.total_pages IN
    IF call.end = NoneEnd \/ call.end > T THEN T ELSE call.end

\* the pages first, first + 1, .., last in increasing order
PagesFromTo(first, last) == [i \in 1..(last - first + 1) |-> first + i - 1]

\* the crawl_pages call in progress has crawled start, start + 1, .. in
\* increasing order, the start page first, and none beyond last
RunningInOrder ==
    rng.pc = "loop" =>
        /\ rng.crawled = PagesFromTo(rng.start, rng.p - 1)
        /\ rng.p > rng.start
        /\ rng.p <= rng.last

\* C2 as stated: crawl_pages requests the start page first, takes T from it,
\* and when every page succeeds has crawled exactly start, start + 1, ..,
\* min(end, T) in that order, each once, and returns their records.
C2_ExactlyStartToEffectiveEnd ==
    /\ RunningInOrder
    /\ RangeSucceeded =>
        /\ call.last = EffectiveEnd
        /\ call.crawled = PagesFromTo(call.start, EffectiveEnd)
        /\ call.ret.val = [i \in 1..Len(call.crawled) |->
                                call.page_rets[i].val]

\* C2, amended: as stated when min(end, T) >= start; when min(end, T) < start
\* the start page alone is crawled and returned.
C2_StartToEffectiveEnd ==
    /\ RunningInOrder
    /\ RangeSucceeded =>
        /\ call.last = EffectiveEnd
        /\ call.crawled =
             IF EffectiveEnd >= call.start
             THEN PagesFromTo(call.start, EffectiveEnd)
             ELSE <<call.start>>
        /\ call.ret.val = [i \in 1..Len(call.crawled) |->
                                call.page_rets[i].val]
        /\ Len(call.netlog) <= Len(call.crawled)

\* C2's case: the first page reports fewer pages than end, and the crawl ends
\* at the reported total
C2_Witness ==
    /\ RangeSucceeded
    /\ call.end # NoneEnd
    /\ call.end > call.last
    /\ call.crawled = <<call.start, call.start + 1>>

\* how many times crawl_pages requested url from the network
TimesRequested(url) ==
    Cardinality({j \in 1..Len(call.netlog) : call.netlog[j] = url})

\* C6: if crawl_page fails for a page of the range, crawl_pages fails with
\* that error at that page: it returns no pages, crawls no later page, and
\* has requested the failing page's URL at most once.
C6_FirstFailureEndsRange ==
    /\ rng.pc = "loop" =>
          \A i \in 1..Len(rng.page_rets) : rng.page_rets[i].kind = "ok"
    /\ call.op = "crawl_pages" =>
          \A i \in 1..Len(call.page_rets) :
              call.page_rets[i].kind = "raise" =>
                  /\ i = Len(call.crawled)
                  /\ call.ret = call.page_rets[i]
                  /\ TimesRequested(_build_page_url(call.thread,
                                                    call.crawled[i])) <= 1

\* C6's case: a page after the first failed, with pages already accumulated
C6_Witness ==
    /\ call.op = "crawl_pages"
    /\ call.ret.kind = "raise"
    /\ Len(call.crawled) >= 2
    /\ call.netlog # <<>>

\* the attribute of a quotation tag, "" if the tag does not have it
AttrOf(tag, name) ==
    LET a == SelectSeq(tag, LAMBDA x : x.name = name) IN
    IF a = <<>> THEN "" ELSE a[1].value

\* the quotation tags of the i-th post that are due an edge to post id t:
\* t is in the tag, and the tag is not an excluded self-quote
TagsDueEdge(i, t) ==
    { k \in 1..Len(df[i].content_text) :
        /\ AttrOf(df[i].content_text[k], "post_id") = t
        /\ ~(call.exclude_self_quotes
             /\ AttrOf(df[i].content_text[k], "author") = df[i].username) }

\* the edges returned from the i-th post to post id t
EdgesReturned(i, t) ==
    { k \in 1..Len(call.ret) :
        /\ call.ret[k].from_post_id = df[i].post_id
        /\ call.ret[k].to_post_id = t }

\* C10: extract_reply_edges returns exactly one edge, quoting post to quoted
\* post, for every quotation tag whose post id is the id of a post of the
\* collection (an earlier or a later one), except for the self-quotes when
\* exclude_self_quotes is set; no other tag yields an edge.
C10_OneEdgePerResolvedQuote ==
    call.op = "extract_reply_edges" =>
        /\ \A i \in 1..Len(df), j \in 1..Len(df) :
               Cardinality(EdgesReturned(i, df[j].post_id))
                   = Cardinality(TagsDueEdge(i, df[j].post_id))
        /\ \A k \in 1..Len(call.ret) :
               \E i \in 1..Len(df), j \in 1..Len(df) :
                   k \in EdgesReturned(i, df[j].post_id)

\* the post ids of the collection
PostIds == {df[i].post_id : i \in 1..Len(df)}

\* build_reply_graph(df, edges) has returned G
GraphBuilt == G # EmptyGraph

\* C11: the nodes of build_reply_graph(df, edges) are exactly the post ids of
\* df, each once; its edges are exactly the pairs of the edge list with both
\* ends among the post ids, so that an edge with an end outside df is dropped
\* and adds no node.  For the two pages, with the edges extract_reply_edges
\* finds, the graph has the nodes 1 and 2 and the one edge 2 -> 1.
C11_NodesArePostsEdgesBetweenThem ==
    GraphBuilt =>
        /\ Range(G.nodes) = PostIds
        /\ Len(G.nodes) = Cardinality(PostIds)
        /\ \A e \in Range(G.edges) : e[1] \in PostIds /\ e[2] \in PostIds
        /\ Range(G.edges) =
             { <<edges[k].from_post_id, edges[k].to_post_id>> :
                 k \in { j \in 1..Len(edges) :
                           /\ edges[j].from_post_id \in PostIds
                           /\ edges[j].to_post_id \in PostIds } }
        /\ (df = TwoPages /\ edges = extract_reply_edges(df, TRUE)) =>
               /\ G.nodes = <<"1", "2">>
               /\ G.edges = << <<"2", "1">> >>

\* C11's case: the edge list has an edge to a post outside the collection
\* and an edge between two posts of it
C11_Witness ==
    /\ GraphBuilt
    /\ \E k \in 1..Len(edges) : edges[k].to_post_id = MissingPostId
    /\ G.edges # <<>>

\* where node n, and the first node of user u, stand in the node order of G
NodePos(n) == CHOOSE i \in 1..Len(G.nodes) : G.nodes[i] = n
UserPos(u) ==
    CHOOSE i \in 1..Len(G.nodes) :
        /\ G.username[G.nodes[i]] = u
        /\ \A j \in 1..(i - 1) : G.username[G.nodes[j]] # u

\* the edges into, and out of, the posts of user u
UserInDegree(u) ==
    Cardinality({e \in Range(G.edges) : G.username[e[2]] = u})
UserOutDegree(u) ==
    Cardinality({e \in Range(G.edges) : G.username[e[1]] = u})

GraphUsers == {G.username[n] : n \in Range(G.nodes)}
QuotedPosts == {n \in Range(G.nodes) : InDegree(G, n) > 0}

\* key x ranks before key y: a larger count, or the same count and earlier
RanksBefore(x, y, cnt(_), pos(_)) ==
    \/ cnt(x) > cnt(y)
    \/ cnt(x) = cnt(y) /\ pos(x) < pos(y)

\* r, a list of (key, count), is the first n of keys by count descending,
\* ties in the order of pos
IsTopN(r, keys, cnt(_), pos(_), n) ==
    /\ Len(r) = IF n < Cardinality(keys) THEN n ELSE Cardinality(keys)
    /\ \A i \in 1..Len(r) : r[i][1] \in keys /\ r[i][2] = cnt(r[i][1])
    /\ \A i \in 1..Len(r), j \in 1..Len(r) :
           i < j => RanksBefore(r[i][1], r[j][1], cnt, pos)
    /\ \A i \in 1..Len(r) :
           \A k \in keys \ {r[j][1] : j \in 1..Len(r)} :
               RanksBefore(r[i][1], k, cnt, pos)

\* C12: compute_graph_stats(G, N) gives as top quoted posts the posts of
\* in-degree > 0 by in-degree descending, ties in node order, cut to N, each
\* with its username; as top quoted users and top repliers the usernames by
\* their summed in-degree and out-degree descending, ties in first-seen
\* order, cut to N.  The graph and N determine every list.
C12_TopNStableDescending ==
    call.op = "compute_graph_stats" =>
        LET tp == call.ret.top_quoted_posts
            InDeg(n) == InDegree(G, n)
        IN
        /\ IsTopN([i \in 1..Len(tp) |-> <<tp[i][1], tp[i][3]>>],
                  QuotedPosts, InDeg, NodePos, call.top_n)
        /\ \A i \in 1..Len(tp) : tp[i][2] = G.username[tp[i][1]]
        /\ IsTopN(call.ret.top_quoted_users, GraphUsers, UserInDegree,
                  UserPos, call.top_n)
        /\ IsTopN(call.ret.top_repliers, GraphUsers, UserOutDegree,
                  UserPos, call.top_n)
        /\ call.ret.num_nodes = Len(G.nodes)
        /\ call.ret.num_edges = Cardinality(Range(G.edges))

\* C12's case: two posts are quoted equally often, N cuts the list between
\* them, and the post inserted first is the one kept
C12_Witness ==
    /\ call.op = "compute_graph_stats"
    /\ call.top_n = 1
    /\ Cardinality(QuotedPosts) = 2
    /\ \A n \in QuotedPosts : InDegree(G, n) = 1
    /\ Len(call.ret.top_quoted_posts) = 1
    /\ NodePos(call.ret.top_quoted_posts[1][1]) = 1

\* the bare thread URL of a thread URL: what stands before the slashes and
\* the page suffix
BareOf(thread_url) == <<thread_url[1]>>

\* C13: for a thread URL b, bare or with a trailing slash or a page suffix,
\* _build_page_url gives the bare URL and one slash for page 1 and the bare
\* URL and /page-N for a page N > 1; it gives the same when b is itself a
\* result of _build_page_url for that thread and any page M.
C13_PageUrlOfBareThread ==
    call.op = "_build_page_url" =>
        /\ call.ret = IF call.page = 1
                      THEN BareOf(call.base) \o <<SlashSeg>>
                      ELSE BareOf(call.base) \o <<PageSeg(call.page)>>
        /\ call.ret = _build_page_url(call.base, call.page)

\* C13's case: a URL built for page M of a suffixed thread URL is given back
\* for another page N > 1
C13_Witness ==
    /\ call.op = "_build_page_url"
    /\ call.thread_url # call.base
    /\ Len(call.base) = 3
    /\ call.thread_url[2].seg = "/page-"
    /\ call.page > 1
    /\ call.page # call.thread_url[2].n
    /\ call.ret = BareOf(call.base) \o <<PageSeg(call.page)>>

\* crawl_pages is over and the content fetched for its start page parsed
FirstPageParsed ==
    /\ call.op = "crawl_pages"
    /\ call.first.kind = "ok"
    /\ parse_thread_page(call.first.val,
                         _build_page_url(call.thread, call.start)).kind = "ok"

\* the start page as parsed, and the total page count it reports
FirstPage ==
    parse_thread_page(call.first.val,
                      _build_page_url(call.thread, call.start)).val
FirstTotal == FirstPage.total_pages

\* C14 as stated: if the total that the first fetch of crawl_pages reports is
\* smaller than start_page, crawl_pages returns a list of one page, the start
\* page.
C14_TotalBelowStartGivesStartPage ==
    (FirstPageParsed /\ FirstTotal < call.start) =>
        call.ret = Ok(<<FirstPage>>)

\* C14, amended: if the total that the first fetch reports is smaller than
\* start_page, crawl_pages fails with PageOutOfRangeError(start_page, total,
\* thread_url), raised by crawl_page for the start page, and crawls no other
\* page.  A list of the start page alone is returned only when the total is
\* at least start_page and end_page or the total is at most start_page.
C14_TotalBelowStartRaises ==
    FirstPageParsed =>
        /\ FirstTotal < call.start =>
              /\ call.ret = Raise(PageOutOfRangeError(
                                    call.start, FirstTotal, call.thread))
              /\ call.crawled = <<call.start>>
        /\ (call.ret.kind = "ok" /\ Len(call.ret.val) = 1) =>
              /\ call.ret = Ok(<<FirstPage>>)
              /\ FirstTotal >= call.start
              /\ FirstTotal = call.start
                    \/ (call.end # NoneEnd /\ call.end <= call.start)

\* C14's case: the start page was taken from the cache or the network and
\* reports fewer pages than start_page
C14_Witness ==
    /\ FirstPageParsed
    /\ FirstTotal < call.start
    /\ call.ret.kind = "raise"
    /\ call.ret.exc.type = "PageOutOfRangeError"

\* the annotations of the reconstructed text, in its order
AnnotationsOf(text) == SelectSeq(text, LAMBDA x : x.kind = "annotation")

\* the text segments and blocks of a body outside every block, with each
\* block as the annotation it is due
TopLevelAnnotated(body) ==
    [i \in 1..Len(body) |->
        IF body[i].kind = "quote" THEN Annotation(body[i]) ELSE body[i]]

\* what is left of the text when the annotations of nested blocks are taken
\* out
WithoutNested(text, body) ==
    SelectSeq(text, LAMBDA x : x.kind # "annotation"
                               \/ \E i \in 1..Len(body) :
                                     x = Annotation(body[i]))

\* C15: in the text reconstructed from a body of text segments and quote
\* blocks, nested blocks among them, every quote block has exactly one
\* annotation, with the author and the post id of that block, the
\* annotations stand in the document order of the blocks and, with the text
\* segments around them, in the document order of the body; no placeholder
\* is left.
C15_OneAnnotationPerBlockInOrder ==
    call.op = "_extract_content_with_quotes" =>
        LET blocks == QuoteBlocksIn(call.body)
            found == AnnotationsOf(call.ret)
        IN
        /\ Len(found) = Len(blocks)
        /\ \A i \in 1..Len(found) :
               i <= Len(blocks) =>
                   /\ found[i].author = blocks[i].author
                   /\ found[i].post_id = blocks[i].post_id
        /\ WithoutNested(call.ret, call.body) = TopLevelAnnotated(call.body)
        /\ \A i \in 1..Len(call.ret) : call.ret[i].kind # "placeholder"

\* C16: every page that parse_thread_page returns has
\* 1 <= current_page <= total_pages: (1, 1) without a pagination bar; with
\* one, current is the current-page label, 1 if that is not a number, and
\* total is the label of the last link, current if that is not a number.
C16_CurrentWithinTotal ==
    (call.op = "parse_thread_page" /\ call.ret.kind = "ok") =>
        LET page_data == call.ret.val
            html == call.html
        IN
        /\ 1 <= page_data.current_page
        /\ page_data.current_page <= page_data.total_pages
        /\ ~html.nav =>
              page_data.current_page = 1 /\ page_data.total_pages = 1
        /\ (html.nav /\ ~IsNumeric(html.current)) =>
              page_data.current_page = 1
        /\ (html.nav /\ ~IsNumeric(html.last)) =>
              page_data.total_pages = page_data.current_page

\* the last operation was crawl_page and it failed on the content, with
\* PageOutOfRangeError or PageParsingError
FailedOnContent ==
    /\ call.op = "crawl_page"
    /\ call.ret.kind = "raise"
    /\ call.ret.exc.type \in {"PageOutOfRangeError", "PageParsingError"}

\* a crawl_page call that failed on freshly fetched content has left that
\* content in the cache, written at the time of the call
FailedContentIsCached ==
    (FailedOnContent /\ call.net = "resp") =>
        files[_key_path(_build_page_url(call.thread, call.page))] =
            JsonFile(_build_page_url(call.thread, call.page), now,
                     call.html.val)

\* what crawl_page(thread_url, page) gives on the content html
OnContent(html, thread_url, page) ==
    LET page_data == parse_thread_page(html,
                                       _build_page_url(thread_url, page))
    IN IF page_data.kind = "raise" THEN page_data
       ELSE IF page > page_data.val.total_pages
       THEN Raise(PageOutOfRangeError(page, page_data.val.total_pages,
                                      thread_url))
       ELSE page_data

\* this step is a crawl_page call, and the file of its URL before the step
CrawlPageStep == call'.op = "crawl_page"
EntryBefore == files[_key_path(_build_page_url(call'.thread, call'.page))]

\* a crawl_page call that finds an entry within its TTL gives what the
\* cached content gives, the same error if it is one, makes no request and
\* leaves the throttle clock and the entry as they are
ServedFromCache ==
    (CrawlPageStep /\ Fresh(EntryBefore)) =>
        /\ call'.ret = OnContent(EntryBefore.html, call'.thread, call'.page)
        /\ call'.net = "none"
        /\ last_request_at' = last_request_at
        /\ lastIssuedAt' = lastIssuedAt
        /\ files' = files

\* an entry within its TTL goes away only by invalidate_page for its page,
\* by clear_cache, or by damage to the file from outside
EntryStays ==
    \A u \in ThreadPages :
        (/\ Fresh(files[_key_path(u)])
         /\ files'[_key_path(u)] # files[_key_path(u)])
            => \/ call'.op = "invalidate_page" /\ call'.url = u
               \/ call'.op = "clear"
               \/ call'.op = "damage" /\ call'.url = u

\* C17: crawl_page caches the response before it parses and validates it.
\* After crawl_page(thread, p) failed with PageOutOfRangeError or
\* PageParsingError on fetched content, the content is in the cache, and as
\* long as the entry is within its TTL and not invalidated, crawl_page(
\* thread, p) fails with the same error without a request and without a
\* change to the throttle clock; only invalidate_page(thread, p),
\* clear_cache or expiry lets a later call reach the network.
C17_FailedContentServedFromCache ==
    /\ []FailedContentIsCached
    /\ [][ServedFromCache /\ EntryStays]_vars

\* C17's case: crawl_page failed with PageParsingError on content that it
\* took from the cache, at a later time than the content was fetched
C17_Witness ==
    /\ FailedOnContent
    /\ call.ret.exc.type = "PageParsingError"
    /\ call.net = "none"
    /\ files[_key_path(_build_page_url(call.thread, call.page))].cached_at
          < now

=============================================================================
